---- MODULE Spec2Model ----
(***************************************************************************)
(* Offline-first score synchronisation of ExamTracker.                     *)
(*                                                                         *)
(* StorageManager (lib/storage.ts) keeps the user's marks, the cache, the  *)
(* last-sync instant and - inside the cache - the pending offline queue in *)
(* localStorage.  ApiClient (lib/api.ts) talks to the scores backend and   *)
(* falls back to the default StorageManager instance `storage`, which is   *)
(* constructed without an apiUrl.                                          *)
(*                                                                         *)
(* Execution model: single-threaded event loop.  A call runs to its next   *)
(* network await in one step; the arrival of a response is a separate      *)
(* step.  A makeRequest that returns without fetching (no apiUrl) only     *)
(* yields to the microtask queue, so the code around it stays one step.    *)
(***************************************************************************)
EXTENDS Integers, Sequences, FiniteSets, TLC

\* ------------------------------------------------------------------ bounds
MaxQueue == 2       \* longest pending queue explored
MaxBulk  == 2       \* longest score list passed to saveBulkScores
MaxCalls == 2       \* calls made by the application in one run
MaxTime  == 3       \* instants the clock passes through

UserId    == "u1"
Papers    == {"p1"}
Questions == {1}
Scores    == {0, 1}
MaxScoreOf == [p \in Papers |-> 1]

\* Two ApiClient instances sharing the module-level `storage`:
\* c1 is built with the default options, c2 with enableOfflineQueue: false.
Clients == {"c1", "c2"}
EnableOfflineQueue == [c \in Clients |-> c = "c1"]

SaveIds  == {1}          \* concurrently pending ApiClient save calls
SyncIds  == {1, 2}       \* concurrently pending syncData calls
DrainIds == {1}          \* concurrently pending processOfflineQueue calls

\* ------------------------------------------------------------- localStorage
USER_ID    == "examtracker_user_id"
USER_MARKS == "examtracker_user_marks"
SETTINGS   == "examtracker_settings"
CACHE      == "examtracker_cache"
LAST_SYNC  == "examtracker_last_sync"
STORAGE_KEYS == {USER_ID, USER_MARKS, SETTINGS, CACHE, LAST_SYNC}

OFFLINE_QUEUE == "offline_queue"
NoExpiry == -1

VARIABLES
    localStorage,    \* STORAGE_KEYS -|-> stored value (a key may be absent)
    online,          \* navigator.onLine
    now,             \* the clock read by new Date()
    remote,          \* the backend's marks of the user: key -|-> score
    syncInProgress,  \* ApiClient.syncInProgress, one flag per instance
    saves,           \* pending ApiClient.saveScore / saveBulkScores calls
    syncs,           \* pending ApiClient.syncData calls
    drains,          \* pending StorageManager.processOfflineQueue calls
    unconfirmed,     \* history: latest accepted write per key the backend
                     \* has not recorded
    last,            \* what the last step was: the call made or the value
                     \* handed back to the caller
    calls,           \* number of calls the application has made
    requests,        \* makeRequest calls in flight, attempt by attempt
    abortController, \* ApiClient.abortController of each instance (0: unset)
    aborted,         \* the AbortControllers whose signal is aborted
    nextCtl          \* the next AbortController to be constructed

storeVars == <<localStorage, online, now, remote, syncInProgress,
               saves, syncs, drains, unconfirmed>>

reqVars == <<requests, abortController, aborted, nextCtl>>

vars == <<localStorage, online, now, remote, syncInProgress,
          saves, syncs, drains, unconfirmed, last, calls,
          requests, abortController, aborted, nextCtl>>

\* ---------------------------------------------------------------- helpers
EmptyMap == [k \in {} |-> 0]

Put(f, k, v) == [x \in DOMAIN f \cup {k} |-> IF x = k THEN v ELSE f[x]]

Without(f, k) == [x \in DOMAIN f \ {k} |-> f[x]]

\* `${paperId}-${questionId}`
MarkKey(paperId, questionId) == paperId \o "-" \o ToString(questionId)

MarkKeys == {MarkKey(p, q) : p \in Papers, q \in Questions}

ScoreInputs ==
    [paperId : Papers, questionId : Questions, score : Scores]

AllMarks == UNION {[D -> Scores] : D \in SUBSET MarkKeys}

\* ------------------------------------------------------ StorageManager (sync)
\* a stored text that JSON.parse rejects
Corrupt == [unparseable |-> 0]

\* JSON.parse of the text stored under key k does not throw
Parses(ls, k) == k \in DOMAIN ls => ls[k] # Corrupt

\* try { return JSON.parse(marks) } catch { return {} }
getUserMarks(ls) ==
    IF USER_MARKS \in DOMAIN ls /\ Parses(ls, USER_MARKS) THEN ls[USER_MARKS]
    ELSE EmptyMap

setUserMarks(ls, marks) == Put(ls, USER_MARKS, marks)

updateUserMark(ls, key, score) ==
    setUserMarks(ls, Put(getUserMarks(ls), key, score))

setLastSyncTime(ls, time) == Put(ls, LAST_SYNC, time)

CacheData(ls) == IF CACHE \in DOMAIN ls THEN ls[CACHE] ELSE EmptyMap

\* variant: the comparison is late by one instant
ExpiredLate(item, t) == item.expires # NoExpiry /\ t > item.expires + 1

\* if (item.expires && new Date() > new Date(item.expires))
Expired(item, t) == item.expires # NoExpiry /\ t > item.expires

\* getCache has two results: the value read and the storage it leaves behind
\* (an expired item is removed).  A miss is reported as found = FALSE.
getCacheHit(ls, key, t) ==
    /\ CACHE \in DOMAIN ls
    /\ Parses(ls, CACHE)
    /\ key \in DOMAIN ls[CACHE]
    /\ ~Expired(ls[CACHE][key], t)

\* setCache and removeFromCache: JSON.parse(localStorage.getItem(CACHE) ||
\* '{}') outside any try block
setCacheThrows(ls) == ~Parses(ls, CACHE)

removeFromCache(ls, key) == Put(ls, CACHE, Without(CacheData(ls), key))

getCacheStore(ls, key, t) ==
    IF /\ CACHE \in DOMAIN ls
       /\ Parses(ls, CACHE)
       /\ key \in DOMAIN ls[CACHE]
       /\ Expired(ls[CACHE][key], t)
    THEN removeFromCache(ls, key)
    ELSE ls

setCache(ls, key, data, t, expiresInMs) ==
    Put(ls, CACHE,
        Put(CacheData(ls), key,
            [data |-> data,
             timestamp |-> t,
             expires |-> IF expiresInMs > 0 THEN t + expiresInMs ELSE NoExpiry]))

\* return localStorage.getItem(this.STORAGE_KEYS.USER_ID)
getUserId(ls) == IF USER_ID \in DOMAIN ls THEN <<ls[USER_ID]>> ELSE <<>>

\* this.getCache('offline_queue') || []
GetQueue(ls, t) ==
    IF getCacheHit(ls, OFFLINE_QUEUE, t) THEN ls[CACHE][OFFLINE_QUEUE].data ELSE <<>>

queueOfflineAction(ls, action, t) ==
    setCache(getCacheStore(ls, OFFLINE_QUEUE, t), OFFLINE_QUEUE,
             Append(GetQueue(ls, t), action), t, 0)

SaveScoreAction(userId, paperId, questionId, score, maxScore, t) ==
    [type |-> "save_score", userId |-> userId, paperId |-> paperId,
     questionId |-> questionId, score |-> score, maxScore |-> maxScore,
     timestamp |-> t]

\* variant: the mark update is forgotten
saveScoreOfflineQueueOnly(ls, userId, paperId, questionId, score, maxScore, t) ==
    queueOfflineAction(
        ls, SaveScoreAction(userId, paperId, questionId, score, maxScore, t), t)

saveScoreOffline(ls, userId, paperId, questionId, score, maxScore, t) ==
    queueOfflineAction(
        updateUserMark(ls, MarkKey(paperId, questionId), score),
        SaveScoreAction(userId, paperId, questionId, score, maxScore, t), t)

Queue == GetQueue(localStorage, now)
Marks == getUserMarks(localStorage)

\* --------------------------------------------------------------- call slots
Result(success, code) == [success |-> success, code |-> code]

IdleSave  == [pc |-> "idle"]
IdleSync  == [pc |-> "idle"]
IdleDrain == [pc |-> "idle"]

Nothing == [op |-> "none", ev |-> "none"]

\* the application makes one more call
Call == calls < MaxCalls /\ calls' = calls + 1

\* What one fetch-backed makeRequest call can end with: a 2xx response, a
\* non-2xx response, an abort by the timeout, a transport failure that
\* outlasted the retries.
Outcomes == {"ok", "http", "timeout", "network"}

FailureCode(outcome) ==
    CASE outcome = "http"    -> "HTTP"
      [] outcome = "timeout" -> "TIMEOUT"
      [] outcome = "network" -> "NETWORK_ERROR"
      [] OTHER               -> "none"

\* ApiClient.makeRequest's result for an outcome
ApiResult(outcome) == Result(outcome = "ok", FailureCode(outcome))

\* StorageManager.makeRequest's result: no fetch without an apiUrl
StorageResult(configured, outcome) ==
    IF ~configured THEN Result(FALSE, "API URL not configured")
    ELSE Result(outcome = "ok", FailureCode(outcome))

\* --------------------------------------------------------------- the backend
\* variant: a conflicting insert adds to the stored score
ServerUpsertAdds(store, key, score) ==
    Put(store, key, IF key \in DOMAIN store THEN store[key] + score ELSE score)

\* INSERT ... ON CONFLICT (id) DO UPDATE SET score = ?
ServerUpsert(store, key, score) == Put(store, key, score)

RECURSIVE ServerUpsertAll(_, _)
ServerUpsertAll(store, items) ==
    IF items = <<>> THEN store
    ELSE ServerUpsertAll(
             ServerUpsert(store, MarkKey(Head(items).paperId, Head(items).questionId),
                          Head(items).score),
             Tail(items))

\* POST /api/sync: the backend answers with (part of) its marks; it may take
\* over the keys it did not know.  Its own value wins on a key both know.
ServerSyncStore(store, localMarks, absorb) ==
    IF absorb
    THEN [k \in DOMAIN store \cup DOMAIN localMarks |->
             IF k \in DOMAIN store THEN store[k] ELSE localMarks[k]]
    ELSE store

ServerSyncReplies(store) ==
    {[k \in D |-> store[k]] : D \in SUBSET DOMAIN store}

\* ------------------------------------------------------- history of writes
Accept(uc, key, score) == Put(uc, key, score)

RECURSIVE AcceptAll(_, _)
AcceptAll(uc, items) ==
    IF items = <<>> THEN uc
    ELSE AcceptAll(Accept(uc, MarkKey(Head(items).paperId, Head(items).questionId),
                          Head(items).score),
                   Tail(items))

Recorded(uc, store) ==
    [k \in {x \in DOMAIN uc : ~(x \in DOMAIN store /\ store[x] = uc[x])} |-> uc[k]]

\* ------------------------------------------------------- ApiClient.saveScore
\* if (!navigator.onLine && this.config.enableOfflineQueue)
QueuesOffline(onLine, enableOfflineQueue) == ~onLine /\ enableOfflineQueue

\* variant: the fallback ignores enableOfflineQueue
FallsBackAlways(result, enableOfflineQueue) == ~result.success

\* if (!result.success && this.config.enableOfflineQueue)
FallsBack(result, enableOfflineQueue) == ~result.success /\ enableOfflineQueue

\* Room for the entries a call may still append (the queue is unbounded in
\* the code; the model explores it up to MaxQueue).
PendingAppends == Cardinality({s \in SaveIds : /\ saves[s].pc = "fetch"
                                               /\ saves[s].op = "saveScore"
                                               /\ EnableOfflineQueue[saves[s].client]})

Room(n) == Len(Queue) + PendingAppends + n <= MaxQueue

ApiSaveScore(s, c, in) ==
    /\ Call
    /\ UNCHANGED reqVars
    /\ saves[s].pc = "idle"
    /\ EnableOfflineQueue[c] => Room(1)
    /\ IF QueuesOffline(online, EnableOfflineQueue[c])
       THEN /\ localStorage' = saveScoreOffline(localStorage, UserId, in.paperId,
                                   in.questionId, in.score, MaxScoreOf[in.paperId], now)
            /\ unconfirmed' = Accept(unconfirmed,
                                  MarkKey(in.paperId, in.questionId), in.score)
            /\ last' = [op |-> "saveScore", ev |-> "return", client |-> c,
                        in |-> in, offline |-> ~online, fetched |-> FALSE,
                        result |-> Result(TRUE, "offline"),
                        queueBefore |-> Queue, marksBefore |-> Marks]
            /\ UNCHANGED saves
       ELSE /\ saves' = [saves EXCEPT ![s] =
                   [pc |-> "fetch", op |-> "saveScore", client |-> c,
                    items |-> <<in>>, offline |-> ~online]]
            /\ last' = [op |-> "saveScore", ev |-> "call"]
            /\ UNCHANGED <<localStorage, unconfirmed>>
    /\ UNCHANGED <<online, now, remote, syncInProgress, syncs, drains>>

ApiSaveScoreResponse(s, outcome) ==
    /\ UNCHANGED <<calls, reqVars>>
    /\ saves[s].pc = "fetch"
    /\ saves[s].op = "saveScore"
    /\ LET in     == saves[s].items[1]
           key    == MarkKey(in.paperId, in.questionId)
           result == ApiResult(outcome)
           store  == IF outcome = "ok" THEN ServerUpsert(remote, key, in.score)
                     ELSE remote
       IN /\ remote' = store
          /\ IF FallsBack(result, EnableOfflineQueue[saves[s].client])
             THEN /\ localStorage' = saveScoreOffline(localStorage, UserId,
                         in.paperId, in.questionId, in.score,
                         MaxScoreOf[in.paperId], now)
                  /\ unconfirmed' = Accept(unconfirmed, key, in.score)
             ELSE /\ localStorage' = localStorage
                  /\ unconfirmed' = Recorded(unconfirmed, store)
          /\ last' = [op |-> "saveScore", ev |-> "return",
                      client |-> saves[s].client, in |-> in,
                      offline |-> saves[s].offline, fetched |-> TRUE,
                      outcome |-> outcome, result |-> result,
                      queueBefore |-> Queue, marksBefore |-> Marks]
    /\ saves' = [saves EXCEPT ![s] = IdleSave]
    /\ UNCHANGED <<online, now, syncInProgress, syncs, drains>>

\* -------------------------------------------------- ApiClient.saveBulkScores
BulkInputs == UNION {[1..n -> ScoreInputs] : n \in 0..MaxBulk}

\* variant: the list is queued as one bulk_save action
SaveBatchOffline(ls, scores, t) ==
    LET RECURSIVE MarkEach(_, _)
        MarkEach(st, rest) ==
            IF rest = <<>> THEN st
            ELSE MarkEach(updateUserMark(st, MarkKey(Head(rest).paperId,
                                                     Head(rest).questionId),
                                         Head(rest).score),
                          Tail(rest))
    IN queueOfflineAction(MarkEach(ls, scores),
                          [type |-> "bulk_save",
                           data |-> [userId |-> UserId, scores |-> scores],
                           timestamp |-> t],
                          t)

\* scores.forEach(score => storage.saveScoreOffline(...))
RECURSIVE SaveEachOffline(_, _, _)
SaveEachOffline(ls, scores, t) ==
    IF scores = <<>> THEN ls
    ELSE SaveEachOffline(
             saveScoreOffline(ls, UserId, Head(scores).paperId,
                              Head(scores).questionId, Head(scores).score,
                              MaxScoreOf[Head(scores).paperId], t),
             Tail(scores), t)

ApiSaveBulkScores(s, c, scores) ==
    /\ Call
    /\ UNCHANGED reqVars
    /\ saves[s].pc = "idle"
    /\ QueuesOffline(online, EnableOfflineQueue[c]) => Room(Len(scores))
    /\ IF QueuesOffline(online, EnableOfflineQueue[c])
       THEN /\ localStorage' = SaveEachOffline(localStorage, scores, now)
            /\ unconfirmed' = AcceptAll(unconfirmed, scores)
            /\ last' = [op |-> "saveBulkScores", ev |-> "return", client |-> c,
                        scores |-> scores, offline |-> ~online,
                        fetched |-> FALSE, result |-> Result(TRUE, "none"),
                        queueBefore |-> Queue]
            /\ UNCHANGED saves
       ELSE /\ saves' = [saves EXCEPT ![s] =
                   [pc |-> "fetch", op |-> "saveBulkScores", client |-> c,
                    items |-> scores, offline |-> ~online]]
            /\ last' = [op |-> "saveBulkScores", ev |-> "call"]
            /\ UNCHANGED <<localStorage, unconfirmed>>
    /\ UNCHANGED <<online, now, remote, syncInProgress, syncs, drains>>

ApiSaveBulkScoresResponse(s, outcome) ==
    /\ UNCHANGED <<calls, reqVars>>
    /\ saves[s].pc = "fetch"
    /\ saves[s].op = "saveBulkScores"
    /\ LET store == IF outcome = "ok" THEN ServerUpsertAll(remote, saves[s].items)
                    ELSE remote
       IN /\ remote' = store
          /\ unconfirmed' = Recorded(unconfirmed, store)
    /\ last' = [op |-> "saveBulkScores", ev |-> "return",
                client |-> saves[s].client, offline |-> saves[s].offline,
                fetched |-> TRUE, result |-> ApiResult(outcome)]
    /\ saves' = [saves EXCEPT ![s] = IdleSave]
    /\ UNCHANGED <<localStorage, online, now, syncInProgress, syncs, drains>>

\* -------------------------------------- StorageManager.processOfflineQueue
\* processed.push(i) follows `await this.saveScore(...)` / `await
\* this.saveBulkScores(...)` whenever the awaited call did not throw; the
\* result it resolved with is not looked at.  makeRequest catches every
\* failure of fetch, so the awaited calls never throw.
ReplayProcessed(action, result) == action.type \in {"save_score", "bulk_save"}

\* the request a replayed action makes the backend apply
ReplayEffect(store, action) ==
    CASE action.type = "save_score" ->
            ServerUpsert(store, MarkKey(action.paperId, action.questionId),
                         action.score)
      [] action.type = "bulk_save" -> ServerUpsertAll(store, action.data.scores)
      [] OTHER -> store

\* queue.filter((_, index) => !processed.includes(index))
RECURSIVE RemainingFrom(_, _, _)
RemainingFrom(queue, processed, i) ==
    IF i > Len(queue) THEN <<>>
    ELSE (IF i \in processed THEN <<>> ELSE <<queue[i]>>)
         \o RemainingFrom(queue, processed, i + 1)

RemainingQueue(queue, processed) == RemainingFrom(queue, processed, 1)

\* this.setCache('offline_queue', remainingQueue)
RewriteQueue(ls, queue, processed, t) ==
    setCache(ls, OFFLINE_QUEUE, RemainingQueue(queue, processed), t, 0)

\* One whole pass of an instance without apiUrl: every replay resolves
\* with 'API URL not configured' without a fetch.
DrainUnconfigured(ls, t) ==
    LET queue == GetQueue(ls, t)
        processed == {i \in 1..Len(queue) :
                         ReplayProcessed(queue[i], StorageResult(FALSE, "none"))}
    IN IF queue = <<>> THEN getCacheStore(ls, OFFLINE_QUEUE, t)
       ELSE RewriteQueue(ls, queue, processed, t)

\* replays of a pass over `queue` on an instance without apiUrl that resolve
\* with success
AckedUnconfigured(queue) ==
    {i \in 1..Len(queue) : StorageResult(FALSE, "none").success}

\* what a finished call leaves to observe: the queue the pass read (before),
\* the queue stored just before the pass rewrote it (live), the replays that
\* resolved with success (acked)
DrainReturn(configured, ran, before, live, acked, sent) ==
    [op |-> "processOfflineQueue", ev |-> "return", configured |-> configured,
     ran |-> ran, before |-> before, live |-> live, acked |-> acked,
     sent |-> sent]

\* variant: the instance believes it is always online
isOnlineAlways(onLine) == TRUE

\* return navigator.onLine
isOnline(onLine) == onLine

\* the indices 0 .. n-1 of the loop, counted from 1
Upto(n) == [k \in 1..n |-> k]

\* variant: the loop gives up at the first entry that fails
NextEntryUntilFailure(i, result, n) == IF result.success THEN i + 1 ELSE n + 1

\* for (let i = 0; i < queue.length; i++): the catch block goes on with i++
NextEntry(i, result, n) == i + 1

\* processOfflineQueue on an instance with (configured) or without apiUrl;
\* the module-level `storage` is the instance without.
StorageProcessOfflineQueue(d, configured) ==
    /\ Call
    /\ UNCHANGED reqVars
    /\ drains[d].pc = "idle"
    /\ IF ~isOnline(online)
       THEN /\ last' = DrainReturn(configured, FALSE, Queue, Queue, {}, <<>>)
            /\ UNCHANGED <<localStorage, drains>>
       ELSE IF Queue = <<>>
       THEN /\ localStorage' = getCacheStore(localStorage, OFFLINE_QUEUE, now)
            /\ last' = DrainReturn(configured, FALSE, Queue, Queue, {}, <<>>)
            /\ UNCHANGED drains
       ELSE IF ~configured
       THEN /\ localStorage' = DrainUnconfigured(localStorage, now)
            /\ last' = DrainReturn(configured, TRUE, Queue, Queue,
                                AckedUnconfigured(Queue), Upto(Len(Queue)))
            /\ UNCHANGED drains
       ELSE /\ drains' = [drains EXCEPT ![d] =
                   [pc |-> "replay", queue |-> Queue, i |-> 1,
                    processed |-> {}, acked |-> {}, sent |-> <<1>>]]
            /\ last' = [op |-> "processOfflineQueue", ev |-> "call"]
            /\ UNCHANGED localStorage
    /\ UNCHANGED <<online, now, remote, syncInProgress, saves, syncs, unconfirmed>>

\* the replay of entry i resolves; the loop goes on to entry i + 1 or, after
\* the last entry, rewrites the queue
StorageReplayResponse(d, outcome) ==
    /\ UNCHANGED <<calls, reqVars>>
    /\ drains[d].pc = "replay"
    /\ LET dr        == drains[d]
           action    == dr.queue[dr.i]
           result    == StorageResult(TRUE, outcome)
           store     == IF outcome = "ok" THEN ReplayEffect(remote, action)
                        ELSE remote
           processed == IF ReplayProcessed(action, result)
                        THEN dr.processed \cup {dr.i} ELSE dr.processed
           acked     == IF result.success THEN dr.acked \cup {dr.i} ELSE dr.acked
           next      == NextEntry(dr.i, result, Len(dr.queue))
       IN /\ remote' = store
          /\ unconfirmed' = Recorded(unconfirmed, store)
          /\ IF next <= Len(dr.queue)
             THEN /\ drains' = [drains EXCEPT ![d].i = next,
                                              ![d].processed = processed,
                                              ![d].acked = acked,
                                              ![d].sent = Append(dr.sent, next)]
                  /\ last' = Nothing
                  /\ UNCHANGED localStorage
             ELSE /\ localStorage' = RewriteQueue(localStorage, dr.queue,
                                                  processed, now)
                  /\ drains' = [drains EXCEPT ![d] = IdleDrain]
                  /\ last' = DrainReturn(TRUE, TRUE, dr.queue, Queue, acked,
                                      dr.sent)
    /\ UNCHANGED <<online, now, syncInProgress, saves, syncs>>

\* -------------------------------------------------------- ApiClient.syncData
\* variant: the force test is inverted
SyncRejectedInverted(inProgress, force) == inProgress /\ force

\* if (this.syncInProgress && !force)
SyncRejected(inProgress, force) == inProgress /\ ~force

\* variant: the spread order is swapped, the local value wins
MergeLocalWins(localMarks, serverMarks) ==
    [k \in DOMAIN localMarks \cup DOMAIN serverMarks |->
        IF k \in DOMAIN localMarks THEN localMarks[k] ELSE serverMarks[k]]

\* { ...localMarks, ...result.data.serverMarks }
MergeMarks(localMarks, serverMarks) ==
    [k \in DOMAIN localMarks \cup DOMAIN serverMarks |->
        IF k \in DOMAIN serverMarks THEN serverMarks[k] ELSE localMarks[k]]

\* variant: the flag is left as it is
ReleaseFlagNever(flags, c) == flags

\* finally { this.syncInProgress = false; }
ReleaseFlag(flags, c) == [flags EXCEPT ![c] = FALSE]

\* variant: the merge is applied whatever the request resolved with
SyncAppliesAlways(result, hasData) == TRUE

\* if (result.success && result.data)
SyncApplies(result, hasData) == result.success /\ hasData

ApiSyncData(y, c, force) ==
    /\ Call
    /\ UNCHANGED reqVars
    /\ syncs[y].pc = "idle"
    /\ IF SyncRejected(syncInProgress[c], force)
       THEN /\ last' = [op |-> "syncData", ev |-> "return", client |-> c,
                        force |-> force, fetched |-> FALSE, merged |-> FALSE,
                        result |-> Result(FALSE, "SYNC_IN_PROGRESS")]
            /\ UNCHANGED <<syncInProgress, syncs>>
       ELSE /\ syncInProgress' = [syncInProgress EXCEPT ![c] = TRUE]
            /\ syncs' = [syncs EXCEPT ![y] =
                   [pc |-> "fetch", client |-> c, force |-> force,
                    localMarks |-> getUserMarks(localStorage)]]
            /\ last' = [op |-> "syncData", ev |-> "call", client |-> c,
                        force |-> force]
    /\ UNCHANGED <<localStorage, online, now, remote, saves, drains, unconfirmed>>

\* variant: the follow-up drain is never triggered
DrainsAfterMergeNever(onLine) == FALSE

\* if (navigator.onLine) await storage.processOfflineQueue(userId)
DrainsAfterMerge(onLine) == onLine

\* What the /api/sync request can resolve with: a failure; a 2xx whose body
\* is null; a 2xx with serverMarks, the backend having taken over the local
\* keys it did not know (absorb) or not, and the body carrying a `conflicts`
\* array or not.
SyncReplies(outcome) ==
    IF outcome # "ok"
    THEN {[hasData |-> FALSE, absorb |-> FALSE, conflicts |-> FALSE,
           serverMarks |-> EmptyMap]}
    ELSE {[hasData |-> FALSE, absorb |-> FALSE, conflicts |-> FALSE,
           serverMarks |-> EmptyMap]}
         \cup {[hasData |-> TRUE, absorb |-> a, conflicts |-> cf,
                 serverMarks |-> sm] :
                  a \in BOOLEAN, cf \in BOOLEAN, sm \in AllMarks}

\* result.data.conflicts.length: a TypeError when the body has no conflicts
SyncReturn(conflicts) == IF conflicts THEN "return" ELSE "throw"

ApiSyncDataResponse(y, outcome, reply) ==
    /\ UNCHANGED <<calls, reqVars>>
    /\ syncs[y].pc = "fetch"
    /\ LET sy     == syncs[y]
           result == ApiResult(outcome)
           store  == IF outcome = "ok"
                     THEN ServerSyncStore(remote, sy.localMarks, reply.absorb)
                     ELSE remote
           merged == setLastSyncTime(
                         setUserMarks(localStorage,
                                      MergeMarks(sy.localMarks, reply.serverMarks)),
                         now)
       IN /\ reply.hasData => reply.serverMarks \in ServerSyncReplies(store)
          /\ remote' = store
          /\ unconfirmed' = Recorded(unconfirmed, store)
          /\ IF SyncApplies(result, reply.hasData)
             THEN /\ localStorage' = IF DrainsAfterMerge(online)
                                     THEN DrainUnconfigured(merged, now)
                                     ELSE merged
                  /\ last' = [op |-> "syncData",
                              ev |-> SyncReturn(reply.conflicts),
                              client |-> sy.client, force |-> sy.force,
                              fetched |-> TRUE, merged |-> TRUE,
                              outcome |-> outcome,
                              result |-> Result(TRUE, "none"),
                              localMarks |-> sy.localMarks,
                              serverMarks |-> reply.serverMarks,
                              drained |-> DrainsAfterMerge(online)]
             ELSE /\ localStorage' = localStorage
                  /\ last' = [op |-> "syncData", ev |-> "return",
                              client |-> sy.client, force |-> sy.force,
                              fetched |-> TRUE, merged |-> FALSE,
                              outcome |-> outcome,
                              result |-> result]
          /\ syncInProgress' = ReleaseFlag(syncInProgress, sy.client)
    /\ syncs' = [syncs EXCEPT ![y] = IdleSync]
    /\ UNCHANGED <<online, now, saves, drains>>

\* StorageManager.saveScoreOffline called by the application itself
StorageSaveScoreOffline(in) ==
    /\ Call
    /\ UNCHANGED reqVars
    /\ Room(1)
    /\ IF setCacheThrows(localStorage)
       THEN \* updateUserMark has written; queueOfflineAction's setCache throws
            /\ localStorage' = updateUserMark(localStorage,
                                   MarkKey(in.paperId, in.questionId), in.score)
            /\ last' = [op |-> "saveScoreOffline", ev |-> "throw", in |-> in,
                        queueBefore |-> Queue, marksBefore |-> Marks,
                        before |-> localStorage]
       ELSE /\ localStorage' = saveScoreOffline(localStorage, UserId, in.paperId,
                                   in.questionId, in.score, MaxScoreOf[in.paperId],
                                   now)
            /\ last' = [op |-> "saveScoreOffline", ev |-> "return", in |-> in,
                        queueBefore |-> Queue, marksBefore |-> Marks,
                        before |-> localStorage]
    /\ unconfirmed' = Accept(unconfirmed, MarkKey(in.paperId, in.questionId),
                             in.score)
    /\ UNCHANGED <<online, now, remote, syncInProgress, saves, syncs, drains>>

\* ------------------------------------------- StorageManager.syncWithServer
\* What POST /sync can resolve with for syncWithServer: a failure; a 2xx
\* whose body is null; a 2xx whose body carries userMarks.
ServerReplies(outcome) ==
    IF outcome # "ok"
    THEN {[hasData |-> FALSE, userMarks |-> EmptyMap]}
    ELSE {[hasData |-> FALSE, userMarks |-> EmptyMap]}
         \cup {[hasData |-> TRUE, userMarks |-> um] : um \in AllMarks}

\* syncWithServer on an instance with (configured) or without apiUrl
StorageSyncWithServer(d, configured) ==
    /\ Call
    /\ UNCHANGED reqVars
    /\ drains[d].pc = "idle"
    /\ IF ~configured
       THEN /\ last' = [op |-> "syncWithServer", ev |-> "return",
                        fetched |-> FALSE, stored |-> FALSE,
                        result |-> StorageResult(FALSE, "none")]
            /\ UNCHANGED drains
       ELSE /\ drains' = [drains EXCEPT ![d] =
                   [pc |-> "sync", localMarks |-> getUserMarks(localStorage)]]
            /\ last' = [op |-> "syncWithServer", ev |-> "call"]
    /\ UNCHANGED <<localStorage, online, now, remote, syncInProgress, saves,
                   syncs, unconfirmed>>

StorageSyncWithServerResponse(d, outcome, reply) ==
    /\ UNCHANGED <<calls, reqVars>>
    /\ drains[d].pc = "sync"
    /\ LET result == StorageResult(TRUE, outcome)
           store  == IF outcome = "ok"
                     THEN ServerSyncStore(remote, drains[d].localMarks, TRUE)
                     ELSE remote
       IN /\ reply.hasData => reply.userMarks \in ServerSyncReplies(store)
          /\ remote' = store
          /\ unconfirmed' = Recorded(unconfirmed, store)
          /\ localStorage' =
                 IF result.success /\ reply.hasData
                 THEN setLastSyncTime(setUserMarks(localStorage, reply.userMarks),
                                      now)
                 ELSE localStorage
          /\ last' = [op |-> "syncWithServer", ev |-> "return",
                      fetched |-> TRUE,
                      stored |-> result.success /\ reply.hasData,
                      result |-> result]
    /\ drains' = [drains EXCEPT ![d] = IdleDrain]
    /\ UNCHANGED <<online, now, syncInProgress, saves, syncs>>

\* ------------------------------------------------- StorageManager.importData
getSettings(ls) ==
    IF SETTINGS \in DOMAIN ls /\ Parses(ls, SETTINGS) THEN ls[SETTINGS]
    ELSE EmptyMap

setUserId(ls, userId) == Put(ls, USER_ID, userId)

setSetting(ls, key, value) == Put(ls, SETTINGS, Put(getSettings(ls), key, value))

\* Object.entries(data.settings).forEach(([key, value]) => setSetting(key, value))
RECURSIVE setSettings(_, _)
setSettings(ls, settings) ==
    IF DOMAIN settings = {} THEN ls
    ELSE LET k == CHOOSE x \in DOMAIN settings : TRUE
         IN setSettings(setSetting(ls, k, settings[k]), Without(settings, k))

\* an absent field of a document is the empty sequence, a present one <<v>>
Absent == <<>>

Given(v) == <<v>>

\* The documents handed to importData: text that does not parse, or an
\* exported snapshot with any of its top-level fields.  `isNull` tells the
\* JSON text `null`; `validDate` tells that new Date(lastSync) is a date.
ImportDocs ==
    {[parses |-> FALSE, isNull |-> FALSE, userId |-> Absent, userMarks |-> Absent,
      settings |-> Absent, lastSync |-> Absent, validDate |-> TRUE]}
    \cup [parses : {TRUE}, isNull : {FALSE},
          userId : {Absent, Given(UserId)},
          userMarks : {Absent} \cup {Given(m) : m \in AllMarks},
          settings : {Absent, Given([theme |-> "dark"])},
          lastSync : {Absent, Given(now - 1)},
          validDate : {TRUE}]

\* Texts of every kind: one that does not parse, the JSON text `null`, and
\* documents whose lastSync, when present, is or is not a date
ImportTexts ==
    {[parses |-> FALSE, isNull |-> FALSE, userId |-> Absent, userMarks |-> Absent,
      settings |-> Absent, lastSync |-> Absent, validDate |-> TRUE],
     [parses |-> TRUE, isNull |-> TRUE, userId |-> Absent, userMarks |-> Absent,
      settings |-> Absent, lastSync |-> Absent, validDate |-> TRUE]}
    \cup {d \in [parses : {TRUE}, isNull : {FALSE},
                  userId : {Absent, Given(UserId)},
                  userMarks : {Absent, Given([m \in {MarkKey("p1", 1)} |-> 0])},
                  settings : {Absent, Given([theme |-> "light"])},
                  lastSync : {Absent, Given(now - 1)},
                  validDate : BOOLEAN] :
              d.lastSync = Absent => d.validDate}

\* JSON.parse throws, or data.userId is read off null
ImportRejected(doc) == ~doc.parses \/ doc.isNull

\* variant: the import stamps the store with the instant of the import
importDataStamped(ls, doc) ==
    LET a == IF doc.userId # Absent THEN setUserId(ls, doc.userId[1]) ELSE ls
        b == IF doc.userMarks # Absent THEN setUserMarks(a, doc.userMarks[1]) ELSE a
        c == IF doc.settings # Absent THEN setSettings(b, doc.settings[1]) ELSE b
    IN IF ImportRejected(doc) THEN ls ELSE setLastSyncTime(c, now)

\* the store importData leaves behind; setLastSyncTime(new Date(lastSync))
\* throws in toISOString when the date is invalid, after the fields before it
importData(ls, doc) ==
    LET a == IF doc.userId # Absent THEN setUserId(ls, doc.userId[1]) ELSE ls
        b == IF doc.userMarks # Absent THEN setUserMarks(a, doc.userMarks[1]) ELSE a
        c == IF doc.settings # Absent THEN setSettings(b, doc.settings[1]) ELSE b
    IN IF ImportRejected(doc) THEN ls
       ELSE IF doc.lastSync # Absent /\ doc.validDate
       THEN setLastSyncTime(c, doc.lastSync[1])
       ELSE c

\* variant: whatever parses is reported as imported
importDataReturnsParsed(doc) == doc.parses

\* return true at the end of the try block, false from the catch
importDataReturns(doc) ==
    /\ ~ImportRejected(doc)
    /\ doc.lastSync # Absent => doc.validDate

StorageImportData(doc) ==
    /\ Call
    /\ UNCHANGED reqVars
    /\ localStorage' = importData(localStorage, doc)
    /\ last' = [op |-> "importData", ev |-> "return", doc |-> doc,
                result |-> importDataReturns(doc), before |-> localStorage]
    /\ UNCHANGED <<online, now, remote, syncInProgress, saves, syncs, drains,
                   unconfirmed>>

\* ------------------------------------------------ ApiClient.deleteUserData
\* Object.values(this.STORAGE_KEYS).forEach(key => localStorage.removeItem(key))
\* variant: the cache key is left out of the sweep
clearAllDataButCache(ls) == [k \in DOMAIN ls \ (STORAGE_KEYS \ {CACHE}) |-> ls[k]]

clearAllData(ls) == [k \in DOMAIN ls \ STORAGE_KEYS |-> ls[k]]

\* variant: the local data is cleared whatever the backend answered
ClearsLocalAlways(result) == TRUE

\* if (result.success) storage.clearAllData()
ClearsLocal(result) == result.success

\* DELETE /api/users/{userId}
ServerDeleteUser(store) == EmptyMap

ApiDeleteUserData(s, c) ==
    /\ Call
    /\ UNCHANGED reqVars
    /\ saves[s].pc = "idle"
    /\ saves' = [saves EXCEPT ![s] =
           [pc |-> "fetch", op |-> "deleteUserData", client |-> c,
            items |-> <<>>, offline |-> ~online]]
    /\ last' = [op |-> "deleteUserData", ev |-> "call"]
    /\ UNCHANGED <<localStorage, online, now, remote, syncInProgress, syncs,
                   drains, unconfirmed>>

ApiDeleteUserDataResponse(s, outcome) ==
    /\ UNCHANGED <<calls, reqVars>>
    /\ saves[s].pc = "fetch"
    /\ saves[s].op = "deleteUserData"
    /\ LET result == ApiResult(outcome)
       IN /\ remote' = IF outcome = "ok" THEN ServerDeleteUser(remote) ELSE remote
          /\ localStorage' = IF ClearsLocal(result) THEN clearAllData(localStorage)
                             ELSE localStorage
          /\ unconfirmed' = IF ClearsLocal(result) THEN EmptyMap ELSE unconfirmed
          /\ last' = [op |-> "deleteUserData", ev |-> "return",
                      client |-> saves[s].client, fetched |-> TRUE,
                      outcome |-> outcome, result |-> result,
                      before |-> localStorage]
    /\ saves' = [saves EXCEPT ![s] = IdleSave]
    /\ UNCHANGED <<online, now, syncInProgress, syncs, drains>>

\* ------------------------------------- the Local Store, operation by operation
\* `user-scores-${userId}` and `paper-scores-${userId}-${paperId}`
UserScoresKey  == "user-scores-u1"
PaperScoresKey == "paper-scores-u1-p1"

LoadKeys  == {UserScoresKey, PaperScoresKey}
CacheKeys == LoadKeys \cup {OFFLINE_QUEUE}

\* score lists as the backend serves them; NoData is a body without data
ScoreData == {"scores-a", "scores-b"}
NoData    == "none"

\* expiresInMs as callers pass it: left out (0) or a lifetime
Lifetimes == {0, 2}

\* 5 * 60 * 1000
LoadLifetime == 300000

\* what getCache hands back
CacheValue(ls, key, t) ==
    IF getCacheHit(ls, key, t) THEN Given(ls[CACHE][key].data) ELSE Absent

StorageGetUserMarks ==
    /\ Call
    /\ UNCHANGED reqVars
    /\ last' = [op |-> "getUserMarks", ev |-> "return",
                value |-> getUserMarks(localStorage), before |-> localStorage]
    /\ UNCHANGED storeVars

StorageGetSettings ==
    /\ Call
    /\ UNCHANGED reqVars
    /\ last' = [op |-> "getSettings", ev |-> "return",
                value |-> getSettings(localStorage), before |-> localStorage]
    /\ UNCHANGED storeVars

StorageGetCache(key) ==
    /\ Call
    /\ UNCHANGED reqVars
    /\ localStorage' = getCacheStore(localStorage, key, now)
    /\ last' = [op |-> "getCache", ev |-> "return", key |-> key,
                value |-> CacheValue(localStorage, key, now),
                before |-> localStorage]
    /\ UNCHANGED <<online, now, remote, syncInProgress, saves, syncs, drains,
                   unconfirmed>>

StorageSetCache(key, data, expiresInMs) ==
    /\ Call
    /\ UNCHANGED reqVars
    /\ IF setCacheThrows(localStorage)
       THEN /\ last' = [op |-> "setCache", ev |-> "throw", key |-> key,
                        before |-> localStorage]
            /\ UNCHANGED localStorage
       ELSE /\ localStorage' = setCache(localStorage, key, data, now, expiresInMs)
            /\ last' = [op |-> "setCache", ev |-> "return", key |-> key,
                        data |-> data, expiresInMs |-> expiresInMs,
                        before |-> localStorage]
    /\ UNCHANGED <<online, now, remote, syncInProgress, saves, syncs, drains,
                   unconfirmed>>

StorageRemoveFromCache(key) ==
    /\ Call
    /\ UNCHANGED reqVars
    /\ IF setCacheThrows(localStorage)
       THEN /\ last' = [op |-> "removeFromCache", ev |-> "throw", key |-> key,
                        before |-> localStorage]
            /\ UNCHANGED localStorage
       ELSE /\ localStorage' = removeFromCache(localStorage, key)
            /\ last' = [op |-> "removeFromCache", ev |-> "return", key |-> key,
                        before |-> localStorage]
    /\ UNCHANGED <<online, now, remote, syncInProgress, saves, syncs, drains,
                   unconfirmed>>

\* localStorage.removeItem(this.STORAGE_KEYS.CACHE)
clearCache(ls) == [k \in DOMAIN ls \ {CACHE} |-> ls[k]]

StorageClearCache ==
    /\ Call
    /\ UNCHANGED reqVars
    /\ localStorage' = clearCache(localStorage)
    /\ last' = [op |-> "clearCache", ev |-> "return", before |-> localStorage]
    /\ UNCHANGED <<online, now, remote, syncInProgress, saves, syncs, drains,
                   unconfirmed>>

StorageUpdateUserMark(in) ==
    /\ Call
    /\ UNCHANGED reqVars
    /\ localStorage' = updateUserMark(localStorage,
                           MarkKey(in.paperId, in.questionId), in.score)
    /\ last' = [op |-> "updateUserMark", ev |-> "return", in |-> in,
                before |-> localStorage]
    /\ UNCHANGED <<online, now, remote, syncInProgress, saves, syncs, drains,
                   unconfirmed>>

StorageClearAllData ==
    /\ Call
    /\ UNCHANGED reqVars
    /\ localStorage' = clearAllData(localStorage)
    /\ unconfirmed' = EmptyMap
    /\ last' = [op |-> "clearAllData", ev |-> "return", before |-> localStorage]
    /\ UNCHANGED <<online, now, remote, syncInProgress, saves, syncs, drains>>

\* the clock advances
Tick ==
    /\ now < MaxTime
    /\ now' = now + 1
    /\ last' = Nothing
    /\ UNCHANGED <<calls, reqVars>>
    /\ UNCHANGED <<localStorage, online, remote, syncInProgress, saves, syncs,
                   drains, unconfirmed>>

\* ----------------------------- ApiClient.loadUserScores / loadPaperScores
\* variant: the cache is consulted whatever useCache says
ServedFromCacheAlways(ls, key, t, useCache) == getCacheHit(ls, key, t)

\* if (useCache) { const cached = storage.getCache(cacheKey); if (cached) ...
ServedFromCache(ls, key, t, useCache) == useCache /\ getCacheHit(ls, key, t)

\* if (result.success && result.data)
CachesResult(result, data) == result.success /\ data # NoData

\* the body of a response: a failure carries no data
LoadReplies(outcome) == IF outcome = "ok" THEN ScoreData \cup {NoData} ELSE {NoData}

ApiLoadScores(s, c, key, useCache) ==
    /\ Call
    /\ UNCHANGED reqVars
    /\ saves[s].pc = "idle"
    /\ localStorage' = IF useCache THEN getCacheStore(localStorage, key, now)
                       ELSE localStorage
    /\ IF ServedFromCache(localStorage, key, now, useCache)
       THEN /\ last' = [op |-> "loadScores", ev |-> "return", client |-> c,
                        key |-> key, useCache |-> useCache, fetched |-> FALSE,
                        fromCache |-> TRUE, result |-> Result(TRUE, "none"),
                        data |-> localStorage[CACHE][key].data,
                        before |-> localStorage]
            /\ UNCHANGED saves
       ELSE /\ saves' = [saves EXCEPT ![s] =
                   [pc |-> "fetch", op |-> "loadScores", client |-> c,
                    items |-> <<>>, offline |-> ~online, key |-> key,
                    useCache |-> useCache]]
            /\ last' = [op |-> "loadScores", ev |-> "call", key |-> key,
                        useCache |-> useCache, before |-> localStorage]
    /\ UNCHANGED <<online, now, remote, syncInProgress, syncs, drains,
                   unconfirmed>>

ApiLoadScoresResponse(s, outcome, data) ==
    /\ UNCHANGED <<calls, reqVars>>
    /\ saves[s].pc = "fetch"
    /\ saves[s].op = "loadScores"
    /\ LET result == ApiResult(outcome)
           key    == saves[s].key
           record == [op |-> "loadScores", client |-> saves[s].client,
                      key |-> key, useCache |-> saves[s].useCache,
                      fetched |-> TRUE, fromCache |-> FALSE,
                      outcome |-> outcome, result |-> result, data |-> data,
                      before |-> localStorage]
       IN IF CachesResult(result, data)
          THEN IF setCacheThrows(localStorage)
               THEN /\ last' = record @@ [ev |-> "throw"]
                    /\ UNCHANGED localStorage
               ELSE /\ localStorage' = setCache(localStorage, key, data, now,
                                                LoadLifetime)
                    /\ last' = record @@ [ev |-> "return"]
          ELSE /\ last' = record @@ [ev |-> "return"]
               /\ UNCHANGED localStorage
    /\ saves' = [saves EXCEPT ![s] = IdleSave]
    /\ UNCHANGED <<online, now, remote, syncInProgress, syncs, drains,
                   unconfirmed>>

\* ------------------------------------------------------------- makeRequest
\* One attempt of makeRequest: a new AbortController, a deadline timer, the
\* fetch; then the response or the catch block.  The instances making
\* requests are the ApiClient instances and a StorageManager built with an
\* apiUrl.
STORAGE == "storage"

Owners == Clients \cup {STORAGE}

RequestIds == {1, 2}       \* makeRequest calls in flight at once

\* this.config.retries / this.config.retryDelay (constructor defaults)
Retries == 3

RetryDelay == 1000

Statuses == {200, 404, 500}

\* response.ok
Ok(status) == status >= 200 /\ status <= 299

\* what fetch rejects with: an AbortError, a TypeError whose message
\* mentions fetch, any other error
ErrorKinds == {"abort", "fetch", "other"}

IdleRequest == [pc |-> "idle"]

Response(success, code, status) ==
    [success |-> success, code |-> code, status |-> status]

RECURSIVE Pow2(_)
Pow2(n) == IF n = 0 THEN 1 ELSE 2 * Pow2(n - 1)

\* variant: the wait does not grow
BackoffFixed(owner, retryCount) == RetryDelay

\* this.config.retryDelay * Math.pow(2, retryCount);
\* StorageManager: Math.pow(2, retryCount) * 1000
Backoff(owner, retryCount) ==
    IF owner = STORAGE THEN Pow2(retryCount) * 1000
    ELSE RetryDelay * Pow2(retryCount)

\* ApiClient.isRetryableError for what fetch rejects with
isRetryableError(kind) == kind = "fetch"

\* variant: an abort is retried like a transport failure
RetriesAfterAbort(owner, kind, retryCount) == retryCount < Retries

\* the catch block: an AbortError returns at once; otherwise
\* ApiClient: retryCount < retries && isRetryableError(error);
\* StorageManager: retryCount < (retries || 0)
RetriesAfter(owner, kind, retryCount) ==
    /\ kind # "abort"
    /\ retryCount < Retries
    /\ owner # STORAGE => isRetryableError(kind)

\* the failure the catch block returns when it does not retry
CatchFailure(owner, kind) ==
    IF kind = "abort"
    THEN Response(FALSE, IF owner = STORAGE THEN "Request timeout" ELSE "TIMEOUT", 0)
    ELSE Response(FALSE, IF owner = STORAGE THEN "error.message" ELSE "NETWORK_ERROR", 0)

\* parseErrorResponse: the body's code, or HTTP_<status> for a body that is
\* not JSON
ErrorCode(status, bodyJson) ==
    IF bodyJson THEN "SERVER_CODE" ELSE "HTTP_" \o ToString(status)

\* variant: the failure does not carry the status
HttpFailureBare(owner, status, bodyJson) ==
    Response(FALSE, ErrorCode(status, bodyJson), 0)

\* if (!response.ok) return { success: false, error: {...status, code} }
HttpFailure(owner, status, bodyJson) ==
    IF owner = STORAGE THEN Response(FALSE, "HTTP", status)
    ELSE Response(FALSE, ErrorCode(status, bodyJson), status)

\* the AbortController the deadline timer of an attempt aborts:
\* ApiClient: () => this.abortController?.abort(), the field as it is when
\* the timer fires; StorageManager: () => controller.abort(), the local
Deadline(req) ==
    IF req.owner = STORAGE THEN req.ctl ELSE abortController[req.owner]

\* timers of one instance are armed with the same timeout: they fire in the
\* order they were armed
FirstArmed(r) ==
    \A q \in RequestIds :
        (/\ requests[q].pc = "fetch"
         /\ requests[q].timer
         /\ requests[q].owner = requests[r].owner) => requests[q].ctl >= requests[r].ctl

\* new AbortController(); setTimeout(...); fetch(url, {signal})
Issue(r, owner, retryCount, waits) ==
    /\ requests' = [requests EXCEPT ![r] =
           [pc |-> "fetch", owner |-> owner, retryCount |-> retryCount,
            ctl |-> nextCtl, timer |-> TRUE, waits |-> waits]]
    /\ abortController' = IF owner = STORAGE THEN abortController
                          ELSE [abortController EXCEPT ![owner] = nextCtl]
    /\ nextCtl' = nextCtl + 1
    /\ UNCHANGED aborted

\* makeRequest returns to its caller
Finish(r, cause, status, bodyJson, result) ==
    /\ requests' = [requests EXCEPT ![r] = IdleRequest]
    /\ last' = [op |-> "makeRequest", ev |-> "return", request |-> r,
                owner |-> requests[r].owner,
                retryCount |-> requests[r].retryCount,
                attempts |-> requests[r].retryCount + 1,
                waits |-> requests[r].waits,
                cause |-> cause, status |-> status, bodyJson |-> bodyJson,
                result |-> result]
    /\ UNCHANGED <<abortController, aborted, nextCtl>>

\* variant: the timer is left armed
clearTimeoutForgotten(timer) == timer

\* clearTimeout(timeoutId), after the fetch and in the catch block
clearTimeout(timer) == FALSE

\* await this.delay(...) before the next attempt
Wait(r, cause, status, bodyJson) ==
    LET req == requests[r]
    IN /\ requests' = [requests EXCEPT ![r] =
              [pc |-> "delay", owner |-> req.owner,
               retryCount |-> req.retryCount, ctl |-> req.ctl,
               timer |-> clearTimeout(req.timer),
               waits |-> Append(req.waits, Backoff(req.owner, req.retryCount))]]
       /\ last' = [op |-> "makeRequest", ev |-> "wait", request |-> r,
                   owner |-> req.owner, retryCount |-> req.retryCount,
                   cause |-> cause, status |-> status, bodyJson |-> bodyJson]
       /\ UNCHANGED <<abortController, aborted, nextCtl>>

MakeRequest(r, owner) ==
    /\ calls < MaxCalls
    /\ calls' = calls + 1
    /\ requests[r].pc = "idle"
    /\ Issue(r, owner, 0, <<>>)
    /\ last' = [op |-> "makeRequest", ev |-> "call", request |-> r]
    /\ UNCHANGED storeVars

\* the deadline of an attempt passes with its fetch still pending
TimerFires(r) ==
    /\ requests[r].pc = "fetch"
    /\ requests[r].timer
    /\ FirstArmed(r)
    /\ aborted' = aborted \cup {Deadline(requests[r])}
    /\ requests' = [requests EXCEPT ![r].timer = FALSE]
    /\ last' = [op |-> "timer", ev |-> "fire", request |-> r,
                ctl |-> requests[r].ctl, target |-> Deadline(requests[r])]
    /\ UNCHANGED <<calls, abortController, nextCtl>>
    /\ UNCHANGED storeVars

\* the fetch resolves with a response; clearTimeout; the result is built
\* (response.json() that throws on a 2xx goes through the catch block)
FetchResponds(r, status, bodyJson) ==
    /\ requests[r].pc = "fetch"
    /\ requests[r].ctl \notin aborted
    /\ LET req == requests[r]
       IN IF ~Ok(status)
          THEN Finish(r, "response", status, bodyJson,
                      HttpFailure(req.owner, status, bodyJson))
          ELSE IF bodyJson
          THEN Finish(r, "response", status, bodyJson,
                      Response(TRUE, "none",
                               IF req.owner = STORAGE THEN status ELSE 0))
          ELSE IF RetriesAfter(req.owner, "other", req.retryCount)
          THEN Wait(r, "parse", status, bodyJson)
          ELSE Finish(r, "parse", status, bodyJson,
                      CatchFailure(req.owner, "other"))
    /\ UNCHANGED calls
    /\ UNCHANGED storeVars

\* the fetch rejects: with an AbortError exactly when its signal is aborted
FetchRejects(r, kind) ==
    /\ requests[r].pc = "fetch"
    /\ (kind = "abort") <=> (requests[r].ctl \in aborted)
    /\ LET req == requests[r]
       IN IF RetriesAfter(req.owner, kind, req.retryCount)
          THEN Wait(r, kind, 0, FALSE)
          ELSE Finish(r, kind, 0, FALSE, CatchFailure(req.owner, kind))
    /\ UNCHANGED calls
    /\ UNCHANGED storeVars

\* the backoff delay is over: return this.makeRequest(..., retryCount + 1)
DelayElapses(r) ==
    /\ requests[r].pc = "delay"
    /\ Issue(r, requests[r].owner, requests[r].retryCount + 1, requests[r].waits)
    /\ last' = [op |-> "makeRequest", ev |-> "retry", request |-> r]
    /\ UNCHANGED calls
    /\ UNCHANGED storeVars

\* ApiClient.cancelRequest
CancelRequest(c) ==
    /\ calls < MaxCalls
    /\ calls' = calls + 1
    /\ abortController[c] # 0
    /\ aborted' = aborted \cup {abortController[c]}
    /\ last' = [op |-> "cancelRequest", ev |-> "return", client |-> c,
                target |-> abortController[c]]
    /\ UNCHANGED <<requests, abortController, nextCtl>>
    /\ UNCHANGED storeVars

Init ==
    /\ localStorage = [k \in {} |-> 0]
    /\ online \in BOOLEAN
    /\ now = 0
    /\ remote \in AllMarks
    /\ syncInProgress = [c \in Clients |-> FALSE]
    /\ saves = [s \in SaveIds |-> IdleSave]
    /\ syncs = [y \in SyncIds |-> IdleSync]
    /\ drains = [d \in DrainIds |-> IdleDrain]
    /\ unconfirmed = EmptyMap
    /\ last = Nothing
    /\ calls = 0
    /\ requests = [r \in RequestIds |-> IdleRequest]
    /\ abortController = [c \in Clients |-> 0]
    /\ aborted = {}
    /\ nextCtl = 1

GoOnline ==
    /\ UNCHANGED <<calls, reqVars>>
    /\ ~online
    /\ online' = TRUE
    /\ last' = Nothing
    /\ UNCHANGED <<localStorage, now, remote, syncInProgress, saves, syncs,
                   drains, unconfirmed>>

GoOffline ==
    /\ UNCHANGED <<calls, reqVars>>
    /\ online
    /\ online' = FALSE
    /\ last' = Nothing
    /\ UNCHANGED <<localStorage, now, remote, syncInProgress, saves, syncs,
                   drains, unconfirmed>>

Next ==
    \/ \E s \in SaveIds, c \in Clients, in \in ScoreInputs : ApiSaveScore(s, c, in)
    \/ \E s \in SaveIds, o \in Outcomes : ApiSaveScoreResponse(s, o)
    \/ \E s \in SaveIds, c \in Clients, b \in BulkInputs : ApiSaveBulkScores(s, c, b)
    \/ \E s \in SaveIds, o \in Outcomes : ApiSaveBulkScoresResponse(s, o)
    \/ \E in \in ScoreInputs : StorageSaveScoreOffline(in)
    \/ \E d \in DrainIds, configured \in BOOLEAN :
           StorageProcessOfflineQueue(d, configured)
    \/ \E d \in DrainIds, o \in Outcomes : StorageReplayResponse(d, o)
    \/ \E y \in SyncIds, c \in Clients, force \in BOOLEAN : ApiSyncData(y, c, force)
    \/ \E y \in SyncIds, o \in Outcomes :
           \E reply \in SyncReplies(o) :
               ApiSyncDataResponse(y, o, reply)
    \/ GoOnline
    \/ GoOffline

Spec == Init /\ [][Next]_vars

\* Every syncData call is made without force.
NextNoForce ==
    \/ \E s \in SaveIds, c \in Clients, in \in ScoreInputs : ApiSaveScore(s, c, in)
    \/ \E s \in SaveIds, o \in Outcomes : ApiSaveScoreResponse(s, o)
    \/ \E s \in SaveIds, c \in Clients, b \in BulkInputs : ApiSaveBulkScores(s, c, b)
    \/ \E s \in SaveIds, o \in Outcomes : ApiSaveBulkScoresResponse(s, o)
    \/ \E in \in ScoreInputs : StorageSaveScoreOffline(in)
    \/ \E d \in DrainIds, configured \in BOOLEAN :
           StorageProcessOfflineQueue(d, configured)
    \/ \E d \in DrainIds, o \in Outcomes : StorageReplayResponse(d, o)
    \/ \E y \in SyncIds, c \in Clients : ApiSyncData(y, c, FALSE)
    \/ \E y \in SyncIds, o \in Outcomes :
           \E reply \in SyncReplies(o) :
               ApiSyncDataResponse(y, o, reply)
    \/ GoOnline
    \/ GoOffline

SpecNoForce == Init /\ [][NextNoForce]_vars

\* The operations of Next together with those that manage the Local Store
\* as a whole: syncWithServer, importData, deleteUserData.
NextStore ==
    \/ Next
    \/ \E d \in DrainIds, configured \in BOOLEAN :
           StorageSyncWithServer(d, configured)
    \/ \E d \in DrainIds, o \in Outcomes :
           \E reply \in ServerReplies(o) :
               StorageSyncWithServerResponse(d, o, reply)
    \/ \E doc \in ImportDocs : StorageImportData(doc)
    \/ \E s \in SaveIds, c \in Clients : ApiDeleteUserData(s, c)
    \/ \E s \in SaveIds, o \in Outcomes : ApiDeleteUserDataResponse(s, o)

SpecStore == Init /\ [][NextStore]_vars

\* The requests the instances make, attempt by attempt.
NextRequest ==
    \/ \E r \in RequestIds, o \in Owners : MakeRequest(r, o)
    \/ \E r \in RequestIds : TimerFires(r)
    \/ \E r \in RequestIds, st \in Statuses, bodyJson \in BOOLEAN :
           FetchResponds(r, st, bodyJson)
    \/ \E r \in RequestIds, kind \in ErrorKinds : FetchRejects(r, kind)
    \/ \E r \in RequestIds : DelayElapses(r)
    \/ \E c \in Clients : CancelRequest(c)

\* the Local Store and the backend take no part in it
InitRequest == Init /\ online /\ remote = EmptyMap

SpecRequest == InitRequest /\ [][NextRequest]_vars

\* The Local Store operation by operation, over what a browser may hold when
\* the page loads: nothing, a used store, or a used store in which the text
\* under some of the JSON-valued keys does not parse.
UsedStore ==
    [k \in STORAGE_KEYS |->
        CASE k = USER_ID    -> UserId
          [] k = USER_MARKS -> [m \in {MarkKey("p1", 1)} |-> 1]
          [] k = SETTINGS   -> [theme |-> "dark"]
          [] k = CACHE      -> [c \in {UserScoresKey} |->
                                   [data |-> "scores-a", timestamp |-> 0,
                                    expires |-> 2]]
          [] OTHER          -> 0]

JsonKeys == {USER_MARKS, SETTINGS, CACHE}

CorruptedStore(ls, keys) == [k \in DOMAIN ls |-> IF k \in keys THEN Corrupt ELSE ls[k]]

PersistedStores ==
    {EmptyMap, UsedStore, CorruptedStore(UsedStore, JsonKeys)}
    \cup {CorruptedStore(UsedStore, {k}) : k \in JsonKeys}

InitLocal ==
    /\ localStorage \in PersistedStores
    /\ online = TRUE
    /\ now = 0
    /\ remote = EmptyMap
    /\ syncInProgress = [c \in Clients |-> FALSE]
    /\ saves = [s \in SaveIds |-> IdleSave]
    /\ syncs = [y \in SyncIds |-> IdleSync]
    /\ drains = [d \in DrainIds |-> IdleDrain]
    /\ unconfirmed = EmptyMap
    /\ last = Nothing
    /\ calls = 0
    /\ requests = [r \in RequestIds |-> IdleRequest]
    /\ abortController = [c \in Clients |-> 0]
    /\ aborted = {}
    /\ nextCtl = 1

NextLocal ==
    \/ StorageGetUserMarks
    \/ StorageGetSettings
    \/ \E key \in CacheKeys : StorageGetCache(key)
    \/ \E key \in LoadKeys, ttl \in Lifetimes :
           StorageSetCache(key, "scores-b", ttl)
    \/ \E key \in CacheKeys : StorageRemoveFromCache(key)
    \/ \E in \in ScoreInputs : StorageUpdateUserMark(in)
    \/ \E in \in ScoreInputs : StorageSaveScoreOffline(in)
    \/ StorageClearAllData
    \/ StorageClearCache
    \/ \E doc \in ImportTexts : StorageImportData(doc)
    \/ \E s \in SaveIds : ApiDeleteUserData(s, "c1")
    \/ \E s \in SaveIds, o \in Outcomes : ApiDeleteUserDataResponse(s, o)
    \/ \E s \in SaveIds, key \in LoadKeys, useCache \in BOOLEAN :
           ApiLoadScores(s, "c1", key, useCache)
    \/ \E s \in SaveIds, o \in Outcomes :
           \E data \in LoadReplies(o) : ApiLoadScoresResponse(s, o, data)
    \/ Tick

SpecLocal == InitLocal /\ [][NextLocal]_vars

\* Drain passes that may overlap, over a queue left by an earlier session:
\* processOfflineQueue is called by the application on reconnect and by
\* whoever else holds a configured StorageManager, and nothing keeps a
\* second call from starting while the first awaits a replay.
PassIds == {1, 2}

\* an entry queued at an earlier instant
QueuedEarlier(score) == SaveScoreAction(UserId, "p1", 1, score, MaxScoreOf["p1"], -1)

\* queues of one or two entries, and the store saveScoreOffline left with them
EarlierQueues ==
    {<<QueuedEarlier(a)>> : a \in Scores}
    \cup {q \in {<<QueuedEarlier(a), QueuedEarlier(b)>> : a \in Scores, b \in Scores} :
              q[1] # q[2]}

QueuedStore(queue) ==
    setCache(setUserMarks(EmptyMap,
                          [k \in {MarkKey("p1", 1)} |-> queue[Len(queue)].score]),
             OFFLINE_QUEUE, queue, -1, 0)

InitDrain ==
    /\ \E queue \in EarlierQueues : localStorage = QueuedStore(queue)
    /\ online = TRUE
    /\ now = 0
    /\ remote \in AllMarks
    /\ syncInProgress = [c \in Clients |-> FALSE]
    /\ saves = [s \in SaveIds |-> IdleSave]
    /\ syncs = [y \in SyncIds |-> IdleSync]
    /\ drains = [d \in PassIds |-> IdleDrain]
    /\ unconfirmed = Recorded(getUserMarks(localStorage), remote)
    /\ last = Nothing
    /\ calls = 0
    /\ requests = [r \in RequestIds |-> IdleRequest]
    /\ abortController = [c \in Clients |-> 0]
    /\ aborted = {}
    /\ nextCtl = 1

NextDrain ==
    \/ \E d \in PassIds : StorageProcessOfflineQueue(d, TRUE)
    \/ \E d \in PassIds, o \in Outcomes : StorageReplayResponse(d, o)
    \/ \E in \in ScoreInputs : StorageSaveScoreOffline(in)
    \/ GoOnline
    \/ GoOffline

SpecDrain == InitDrain /\ [][NextDrain]_vars

\* =================================================================== claims
Returned(op) == last.op = op /\ last.ev = "return"

KeyOf(in) == MarkKey(in.paperId, in.questionId)

EntryOf(in) ==
    SaveScoreAction(UserId, in.paperId, in.questionId, in.score,
                    MaxScoreOf[in.paperId], now)

HoldsWrite(queue, key, score) ==
    \E i \in 1..Len(queue) :
        /\ queue[i].type = "save_score"
        /\ MarkKey(queue[i].paperId, queue[i].questionId) = key
        /\ queue[i].score = score

\* C1: every write accepted through saveScore / saveScoreOffline that the
\* backend has not recorded is still the value of its key in UserMarks or
\* an entry of the pending queue.
C1_NoAcceptedWriteLost ==
    \A k \in DOMAIN unconfirmed :
        \/ k \in DOMAIN Marks /\ Marks[k] = unconfirmed[k]
        \/ HoldsWrite(Queue, k, unconfirmed[k])

DrainPassed == Returned("processOfflineQueue") /\ last.ran

\* C2: after a drain pass, every entry whose replay did not resolve with
\* success is still in the queue (an entry leaves the queue only once the
\* backend has recorded it).
C2_RemovedOnlyIfConfirmed ==
    DrainPassed =>
        \A i \in 1..Len(last.before) :
            i \notin last.acked => \E j \in 1..Len(Queue) : Queue[j] = last.before[i]

\* C3: after a drain pass with no enqueue during it, the queue is exactly
\* the entries the backend rejected, in their original order.
C3_QueueIsRejectedSubsequence ==
    (DrainPassed /\ last.live = last.before) =>
        Queue = RemainingQueue(last.before, 1..Len(last.before) \ last.acked)

\* C4: when processOfflineQueue on the module-level `storage` instance has
\* run online over a non-empty queue, the backend has received every queued
\* save and the queue is empty.
C4_DefaultInstanceDelivers ==
    (DrainPassed /\ ~last.configured) =>
        /\ last.acked = 1..Len(last.before)
        /\ Queue = <<>>

\* C5: ApiClient.saveScore called offline with enableOfflineQueue = true
\* makes no network request, appends exactly one entry to the queue, sets
\* the mark of "{paperId}-{questionId}" and returns success.
C5_OfflineShortCircuit ==
    (Returned("saveScore") /\ last.offline /\ EnableOfflineQueue[last.client]) =>
        /\ ~last.fetched
        /\ last.result.success
        /\ Queue = Append(last.queueBefore, EntryOf(last.in))
        /\ KeyOf(last.in) \in DOMAIN Marks
        /\ Marks[KeyOf(last.in)] = last.in.score

C5_Witness ==
    /\ Returned("saveScore") /\ last.offline /\ EnableOfflineQueue[last.client]
    /\ Len(last.queueBefore) >= 1
    /\ KeyOf(last.in) \in DOMAIN last.marksBefore
    /\ last.marksBefore[KeyOf(last.in)] # last.in.score

OnlineSaveFailed ==
    /\ Returned("saveScore") /\ ~last.offline /\ last.fetched
    /\ EnableOfflineQueue[last.client]
    /\ last.outcome # "ok"

\* C6: when ApiClient.saveScore is called online with enableOfflineQueue =
\* true and the network write fails, the write is enqueued and the caller
\* receives a success result.
C6_FailedSaveReportsSuccess ==
    OnlineSaveFailed =>
        /\ Queue = Append(last.queueBefore, EntryOf(last.in))
        /\ KeyOf(last.in) \in DOMAIN Marks
        /\ Marks[KeyOf(last.in)] = last.in.score
        /\ last.result.success

\* C7: when ApiClient.saveScore fails with enableOfflineQueue = false, it
\* returns the failure, appends nothing to the queue and leaves UserMarks
\* as it was.
C7_DisabledQueueSurfacesFailure ==
    (Returned("saveScore") /\ ~EnableOfflineQueue[last.client]
        /\ ~last.result.success) =>
        /\ last.result.code \in {"HTTP", "TIMEOUT", "NETWORK_ERROR"}
        /\ Queue = last.queueBefore
        /\ Marks = last.marksBefore

C7_Witness ==
    /\ Returned("saveScore") /\ ~EnableOfflineQueue[last.client]
    /\ ~last.result.success
    /\ last.offline
    /\ last.queueBefore # <<>>

OfflineBulk ==
    /\ Returned("saveBulkScores") /\ last.offline /\ ~last.fetched
    /\ EnableOfflineQueue[last.client]

SyncMerged == Returned("syncData") /\ last.merged

\* C9: after a successful syncData that read the local map L and received
\* the server map S, UserMarks has the server value for every key of S,
\* the local value for every key only in L, and no other key.
C9_MergeRemoteWins ==
    SyncMerged =>
        /\ last.result.success
        /\ DOMAIN Marks = DOMAIN last.localMarks \cup DOMAIN last.serverMarks
        /\ \A k \in DOMAIN last.serverMarks : Marks[k] = last.serverMarks[k]
        /\ \A k \in DOMAIN last.localMarks \ DOMAIN last.serverMarks :
               Marks[k] = last.localMarks[k]

C9_Witness ==
    /\ SyncMerged
    /\ \E k \in DOMAIN last.localMarks \cap DOMAIN last.serverMarks :
           last.localMarks[k] # last.serverMarks[k]

PendingSync(c) == \E y \in SyncIds : syncs[y].pc = "fetch" /\ syncs[y].client = c

PendingSyncNext(c) ==
    \E y \in SyncIds : syncs'[y].pc = "fetch" /\ syncs'[y].client = c

SyncCalled == calls' = calls + 1 /\ last'.op = "syncData"

\* C10: a syncData call made without force while an earlier syncData of the
\* client is pending returns SYNC_IN_PROGRESS without a request and without
\* touching local state; a call made when none is pending is admitted.
C10_SecondSyncRejected ==
    [][(SyncCalled /\ ~last'.force) =>
          IF PendingSync(last'.client)
          THEN /\ last'.ev = "return"
               /\ ~last'.result.success
               /\ last'.result.code = "SYNC_IN_PROGRESS"
               /\ ~last'.fetched
               /\ localStorage' = localStorage
               /\ syncs' = syncs
          ELSE /\ last'.ev = "call"
               /\ PendingSyncNext(last'.client)
               /\ syncInProgress'[last'.client]]_vars

C10_Witness ==
    /\ Returned("syncData")
    /\ last.result.code = "SYNC_IN_PROGRESS"
    /\ ~last.force

\* C11: at no time are two syncData calls made without force both in
\* progress, whichever ApiClient instances they were made on.
C11_OneSyncInProcess ==
    Cardinality({y \in SyncIds : syncs[y].pc = "fetch" /\ ~syncs[y].force}) <= 1

SyncEnded == last.op = "syncData" /\ last.ev \in {"return", "throw"} /\ last.fetched

\* C12: a syncData call that acquired the in-progress flag has cleared it
\* when it returns or throws, on every exit path, and the flag of a client
\* is set only while one of its syncData calls is running.
C12_FlagAlwaysReleased ==
    /\ SyncEnded => ~syncInProgress[last.client]
    /\ \A c \in Clients : syncInProgress[c] => PendingSync(c)

C12_Witness == SyncEnded /\ last.ev = "throw" /\ last.drained

SyncStep == last'.op = "syncData"

SyncMergedNext ==
    /\ last'.ev \in {"return", "throw"}
    /\ last'.fetched
    /\ last'.merged

\* C13: a syncData call whose /sync request failed, or that was rejected
\* with SYNC_IN_PROGRESS, leaves UserMarks, lastSyncTime and the pending
\* queue as they were; a syncData step changes the Local Store only by
\* writing the whole merge (merged marks and lastSyncTime).
C13_AllOrNothing ==
    [][SyncStep =>
          IF SyncMergedNext
          THEN /\ last'.outcome = "ok"
               /\ getUserMarks(localStorage') =
                      MergeMarks(last'.localMarks, last'.serverMarks)
               /\ LAST_SYNC \in DOMAIN localStorage'
               /\ localStorage'[LAST_SYNC] = now
          ELSE localStorage' = localStorage]_vars

C13_Witness ==
    /\ Returned("syncData") /\ last.fetched
    /\ last.outcome # "ok"
    /\ ~last.result.success
    /\ Marks # EmptyMap
    /\ Queue # <<>>

\* C20: no public ApiClient operation ends by throwing; every call resolves
\* with a typed result.
C20_NoOperationThrows == last.ev # "throw"

getLastSyncTime(ls) == IF LAST_SYNC \in DOMAIN ls THEN Given(ls[LAST_SYNC]) ELSE Absent

LastSyncChanges == getLastSyncTime(localStorage') # getLastSyncTime(localStorage)

\* the step is the merge of a syncData call: merged marks, then lastSyncTime
MergeWritten ==
    /\ SyncStep /\ SyncMergedNext
    /\ getUserMarks(localStorage') = MergeMarks(last'.localMarks, last'.serverMarks)
    /\ getLastSyncTime(localStorage') = Given(now)

\* C14 as stated: the persisted lastSyncTime changes only in a step that
\* has just written the merged marks of a successful syncData.
C14_LastSyncOnlyByMerge ==
    [][LastSyncChanges => MergeWritten]_vars

\* C14 as amended: the persisted lastSyncTime changes only (a) in the merge
\* step of a successful syncData, right after the merged marks, (b) when
\* syncWithServer has stored the marks of a successful reply, (c) when
\* importData restores a snapshot carrying lastSync, to that instant, and
\* (d) when a successful deleteUserData clears the store.
C14_LastSyncWriters ==
    [][LastSyncChanges =>
          \/ MergeWritten
          \/ /\ last'.op = "syncWithServer" /\ last'.ev = "return"
             /\ last'.stored
             /\ getLastSyncTime(localStorage') = Given(now)
          \/ /\ last'.op = "importData" /\ last'.result
             /\ last'.doc.lastSync # Absent
             /\ getLastSyncTime(localStorage') = last'.doc.lastSync
          \/ /\ last'.op = "deleteUserData" /\ last'.ev = "return"
             /\ last'.result.success
             /\ getLastSyncTime(localStorage') = Absent]_vars

C14_Witness ==
    /\ SyncEnded /\ last.merged
    /\ getLastSyncTime(localStorage) = Given(now)
    /\ Marks # EmptyMap

\* C15 : when the deadline of an attempt passes with its fetch still
\* pending, that attempt's own request is aborted, whatever other requests
\* the instance has issued meanwhile.
C15_DeadlineAbortsOwnRequest ==
    (last.op = "timer" /\ last.ev = "fire") => last.ctl \in aborted

\* an attempt of makeRequest has just ended, by a return or by a backoff wait
AttemptEnded == last.op = "makeRequest" /\ last.ev \in {"wait", "return"}

C17_ServerErrorRetried ==
    (/\ AttemptEnded /\ last.cause = "response"
     /\ last.status >= 500
     /\ last.retryCount < Retries) => last.ev = "wait"

C19_BoundedBackoff ==
    /\ \A r \in RequestIds :
           requests[r].pc # "idle" =>
               /\ requests[r].retryCount <= Retries
               /\ Len(requests[r].waits) =
                      requests[r].retryCount
                      + (IF requests[r].pc = "delay" THEN 1 ELSE 0)
               /\ \A n \in 1..Len(requests[r].waits) :
                      requests[r].waits[n] = RetryDelay * Pow2(n - 1)
    /\ (Returned("makeRequest") /\ last.cause = "fetch") =>
           /\ last.retryCount = Retries
           /\ last.attempts = Retries + 1
           /\ ~last.result.success
           /\ last.owner # STORAGE => last.result.code = "NETWORK_ERROR"
    /\ (Returned("makeRequest") /\ last.cause = "response"
            /\ Ok(last.status) /\ last.bodyJson) => last.result.success

C19_Witness ==
    /\ Returned("makeRequest")
    /\ last.result.success
    /\ last.retryCount = Retries
    /\ last.owner \in Clients

\* C21: no Local Store operation throws on malformed persisted JSON: with a
\* corrupt value under the marks, settings or cache key, getUserMarks,
\* getSettings, getCache, setCache, removeFromCache, updateUserMark and
\* saveScoreOffline all complete.
LocalStoreOps == {"getUserMarks", "getSettings", "getCache", "setCache",
                  "removeFromCache", "updateUserMark", "saveScoreOffline"}

C21_CorruptJsonNeverThrows ==
    last.op \in LocalStoreOps => last.ev = "return"

\* C22: saveScoreOffline performs both actions or neither: after any call
\* the mark of "{paperId}-{questionId}" is the given score and exactly one
\* save_score entry for the call is appended at the tail of the queue, all
\* other marks and all earlier entries unchanged; no outcome leaves the mark
\* updated without the queue entry.
C22_MarkAndEntryTogether ==
    last.op = "saveScoreOffline" =>
        /\ Marks = Put(last.marksBefore, KeyOf(last.in), last.in.score)
        /\ Queue = Append(last.queueBefore, EntryOf(last.in))

StoredEntry(ls, key) ==
    /\ CACHE \in DOMAIN ls
    /\ Parses(ls, CACHE)
    /\ key \in DOMAIN ls[CACHE]

\* C23: a cache entry stored with a TTL is returned by getCache at every
\* read strictly before its expiry instant (the instant of the setCache plus
\* the TTL); the first read after that instant returns null and removes that
\* entry and nothing else; an entry stored without TTL never expires; and an
\* entry leaves the cache only in a step that reads it (getCache, directly
\* or through a score load) or that a caller asked to delete it
\* (removeFromCache, clearCache, clearAllData, also through deleteUserData),
\* never in a step of the clock.
C23_SetStep ==
    (last'.op = "setCache" /\ last'.ev = "return") =>
        /\ StoredEntry(localStorage', last'.key)
        /\ localStorage'[CACHE][last'.key].data = last'.data
        /\ localStorage'[CACHE][last'.key].expires =
               IF last'.expiresInMs > 0 THEN now + last'.expiresInMs ELSE NoExpiry

C23_ReadStep ==
    (last'.op = "getCache" /\ StoredEntry(localStorage, last'.key)) =>
        LET item == localStorage[CACHE][last'.key]
        IN /\ (item.expires = NoExpiry \/ now < item.expires) =>
                  /\ last'.value = Given(item.data)
                  /\ localStorage' = localStorage
           /\ (item.expires # NoExpiry /\ now > item.expires) =>
                  /\ last'.value = Absent
                  /\ localStorage' = [localStorage EXCEPT
                                         ![CACHE] = Without(@, last'.key)]

C23_NoSweep ==
    \A k \in CacheKeys :
        (StoredEntry(localStorage, k) /\ ~StoredEntry(localStorage', k)) =>
            \/ last'.op \in {"getCache", "loadScores", "removeFromCache"}
                   /\ last'.key = k
            \/ last'.op \in {"clearCache", "clearAllData", "deleteUserData"}

C23_LazyExpiry == [][C23_SetStep /\ C23_ReadStep /\ C23_NoSweep]_vars

\* an expired entry is read and evicted while another entry stays cached
C23_Witness ==
    /\ last.op = "getCache"
    /\ StoredEntry(last.before, last.key)
    /\ last.before[CACHE][last.key].expires # NoExpiry
    /\ now > last.before[CACHE][last.key].expires
    /\ last.value = Absent
    /\ \E k \in CacheKeys \ {last.key} : StoredEntry(localStorage, k)

\* the entry of `key` in store ls can still be served at instant t
Unexpired(ls, key, t) ==
    /\ StoredEntry(ls, key)
    /\ ls[CACHE][key].expires = NoExpiry \/ t <= ls[CACHE][key].expires

\* C24: loadUserScores / loadPaperScores with useCache = true and an
\* unexpired cache entry return that data tagged fromCache without a network
\* request; with a miss or useCache = false they issue the request; the
\* cache is written (entry of the call's key, lifetime of 5 minutes) only
\* when the remote call succeeded; a failed load leaves the Local Store as
\* it was and is not tagged fromCache.
C24_CacheFirstLoad ==
    /\ (last.op = "loadScores" /\ last.ev = "return" /\ ~last.fetched) =>
           /\ last.useCache /\ last.fromCache
           /\ Unexpired(last.before, last.key, now)
           /\ last.result.success
           /\ last.data = last.before[CACHE][last.key].data
           /\ localStorage = last.before
    /\ (last.op = "loadScores" /\ last.ev = "call") =>
           /\ ~(last.useCache /\ Unexpired(last.before, last.key, now))
           /\ \E s \in SaveIds : /\ saves[s].pc = "fetch"
                                 /\ saves[s].op = "loadScores"
                                 /\ saves[s].key = last.key
    /\ (last.op = "loadScores" /\ last.ev # "call" /\ last.fetched) =>
           /\ ~last.fromCache
           /\ last.result.success <=> last.outcome = "ok"
           /\ localStorage # last.before => last.result.success
           /\ ~last.result.success => last.data = NoData
           /\ (last.ev = "return" /\ last.result.success /\ last.data # NoData) =>
                  /\ StoredEntry(localStorage, last.key)
                  /\ localStorage[CACHE][last.key] =
                         [data |-> last.data, timestamp |-> now,
                          expires |-> now + LoadLifetime]
                  /\ \A k \in DOMAIN localStorage \ {CACHE} :
                         k \in DOMAIN last.before /\ localStorage[k] = last.before[k]
                  /\ \A k \in DOMAIN localStorage[CACHE] \ {last.key} :
                         /\ StoredEntry(last.before, k)
                         /\ localStorage[CACHE][k] = last.before[CACHE][k]

\* a load served from the entry an earlier load cached
C24_Witness ==
    /\ last.op = "loadScores" /\ last.ev = "return"
    /\ last.fromCache
    /\ last.before[CACHE][last.key].expires >= LoadLifetime

\* C25: processOfflineQueue called while offline is a no-op: it issues no
\* network request and leaves the pending queue, the marks and every other
\* persisted key unchanged.
C25_OfflineDrainStep ==
    (last'.op = "processOfflineQueue" /\ calls' # calls /\ ~online) =>
        /\ last'.ev = "return"
        /\ ~last'.ran
        /\ last'.sent = <<>>
        /\ UNCHANGED <<localStorage, remote, drains, saves, syncs>>

C25_OfflineDrainIsNoOp == [][C25_OfflineDrainStep]_vars

\* the call was made offline over a queue that holds entries
C25_Witness ==
    /\ Returned("processOfflineQueue")
    /\ ~online
    /\ ~last.ran
    /\ last.before # <<>>
    /\ Queue = last.before

\* C26: within one drain pass the entries are attempted in insertion order,
\* one at a time, each attempt finishing before the next starts; every entry
\* of the queue is attempted exactly once, whether or not earlier ones
\* failed.
C26_FifoOneAtATime ==
    /\ \A d \in DrainIds :
           drains[d].pc = "replay" =>
               /\ drains[d].i \in 1..Len(drains[d].queue)
               /\ drains[d].sent = Upto(drains[d].i)
    /\ (Returned("processOfflineQueue") /\ last.ran) =>
           last.sent = Upto(Len(last.before))

\* a pass over two entries whose first replay failed and whose second
\* succeeded
C26_Witness ==
    /\ Returned("processOfflineQueue") /\ last.ran /\ last.configured
    /\ Len(last.before) = 2
    /\ last.acked = {2}

\* C27: deleteUserData clears all local data (marks, settings, cache,
\* last-sync time, user id) exactly when the remote delete succeeded; when
\* the remote delete fails every local key is unchanged and the failure is
\* returned.
C27_ClearsIffRemoteDeleted ==
    Returned("deleteUserData") =>
        /\ last.result.success <=> last.outcome = "ok"
        /\ last.outcome = "ok" => DOMAIN localStorage \cap STORAGE_KEYS = {}
        /\ last.outcome # "ok" =>
               /\ localStorage = last.before
               /\ last.result = Result(FALSE, FailureCode(last.outcome))

\* a successful delete over a store that held all five keys
C27_Witness ==
    /\ Returned("deleteUserData")
    /\ last.outcome = "ok"
    /\ STORAGE_KEYS \subseteq DOMAIN last.before

\* C28: after clearAllData every managed piece of persisted state is absent:
\* getUserId and getLastSyncTime return null, getUserMarks and getSettings
\* return {}, every getCache read returns null and the pending queue is
\* empty.
C28_ClearedStoreIsEmpty ==
    last.op = "clearAllData" =>
        /\ getUserId(localStorage) = <<>>
        /\ LAST_SYNC \notin DOMAIN localStorage
        /\ getUserMarks(localStorage) = EmptyMap
        /\ getSettings(localStorage) = EmptyMap
        /\ \A key \in CacheKeys : CacheValue(localStorage, key, now) = Absent
        /\ Queue = <<>>

\* the store cleared held all five keys and a pending queue entry
C28_Witness ==
    /\ last.op = "clearAllData"
    /\ STORAGE_KEYS \subseteq DOMAIN last.before
    /\ getUserMarks(last.before) # EmptyMap
    /\ GetQueue(last.before, now) # <<>>

\* what the document makes of key k of store ls: the value stored under k
\* after an import that wrote every one of its fields
Imported(ls, doc, k) ==
    CASE k = USER_ID /\ doc.userId # Absent -> doc.userId
      [] k = USER_MARKS /\ doc.userMarks # Absent -> doc.userMarks
      [] k = SETTINGS /\ doc.settings # Absent ->
             Given([x \in DOMAIN getSettings(ls) \cup DOMAIN doc.settings[1] |->
                       IF x \in DOMAIN doc.settings[1] THEN doc.settings[1][x]
                       ELSE getSettings(ls)[x]])
      [] k = LAST_SYNC /\ doc.lastSync # Absent /\ doc.validDate -> doc.lastSync
      [] OTHER -> IF k \in DOMAIN ls THEN Given(ls[k]) ELSE Absent

Stored(ls, k) == IF k \in DOMAIN ls THEN Given(ls[k]) ELSE Absent

\* C29 as stated: importData on unparseable input returns false and writes
\* nothing; on well-formed input it returns true and sets each top-level
\* field that is present.
C29_TrueOnWellFormed ==
    Returned("importData") =>
        /\ ~last.doc.parses => ~last.result /\ localStorage = last.before
        /\ last.doc.parses =>
               /\ last.result
               /\ \A k \in STORAGE_KEYS :
                      Stored(localStorage, k) = Imported(last.before, last.doc, k)

\* C29, amended: importData returns false and writes nothing when the input
\* does not parse or is the JSON text null.  For any other parsed document
\* it sets, in the order user id, marks, settings, last sync, each top-level
\* field that is present, and returns true unless lastSync is present and
\* is not a date: then it returns false with the fields before lastSync
\* written and the stored last-sync time untouched.
C29_ImportFailsClosed ==
    Returned("importData") =>
        /\ ImportRejected(last.doc) => ~last.result /\ localStorage = last.before
        /\ ~ImportRejected(last.doc) =>
               /\ last.result <=> (last.doc.lastSync = Absent \/ last.doc.validDate)
               /\ \A k \in STORAGE_KEYS :
                      Stored(localStorage, k) = Imported(last.before, last.doc, k)

\* a document whose marks were written before its lastSync was refused
C29_Witness ==
    /\ Returned("importData")
    /\ ~last.result
    /\ last.doc.userMarks # Absent
    /\ Stored(last.before, USER_MARKS) # last.doc.userMarks
    /\ Stored(localStorage, USER_MARKS) = last.doc.userMarks

\* the calls of client c that have not resolved yet: waiting for a fetch or
\* for the backoff delay before the next attempt
Unresolved(c) ==
    {r \in RequestIds : requests[r].pc # "idle" /\ requests[r].owner = c}

\* C30: cancelRequest aborts the most recently issued in-flight request of
\* the client and only that one, and the aborted call resolves with a
\* failure.  Checked in what it requires of every cancelRequest made while
\* the client has calls in flight: the handle it aborts is the one of a
\* fetch of that client that is pending.
C30_CancelAbortsInFlight ==
    (last.op = "cancelRequest" /\ Unresolved(last.client) # {}) =>
        \E r \in Unresolved(last.client) :
            /\ requests[r].pc = "fetch"
            /\ requests[r].ctl = last.target

\* Saving and loading scores through one ApiClient, over a store that is
\* empty or holds the user's score list as an earlier loadUserScores cached
\* it.
LoadedStore == setCache(EmptyMap, UserScoresKey, "scores-a", 0, LoadLifetime)

InitLoad ==
    /\ localStorage \in {EmptyMap, LoadedStore}
    /\ online = TRUE
    /\ now = 0
    /\ remote \in AllMarks
    /\ syncInProgress = [c \in Clients |-> FALSE]
    /\ saves = [s \in SaveIds |-> IdleSave]
    /\ syncs = [y \in SyncIds |-> IdleSync]
    /\ drains = [d \in DrainIds |-> IdleDrain]
    /\ unconfirmed = EmptyMap
    /\ last = Nothing
    /\ calls = 0
    /\ requests = [r \in RequestIds |-> IdleRequest]
    /\ abortController = [c \in Clients |-> 0]
    /\ aborted = {}
    /\ nextCtl = 1

NextLoad ==
    \/ \E s \in SaveIds, in \in ScoreInputs : ApiSaveScore(s, "c1", in)
    \/ \E s \in SaveIds, o \in Outcomes : ApiSaveScoreResponse(s, o)
    \/ \E s \in SaveIds, key \in LoadKeys, useCache \in BOOLEAN :
           ApiLoadScores(s, "c1", key, useCache)
    \/ \E s \in SaveIds, o \in Outcomes :
           \E data \in LoadReplies(o) : ApiLoadScoresResponse(s, o, data)
    \/ GoOnline
    \/ GoOffline
    \/ Tick

SpecLoad == InitLoad /\ [][NextLoad]_vars

\* C31: after a successful merge syncData triggers processOfflineQueue if
\* and only if the client is online at that moment, after the merged marks
\* and lastSyncTime have been written; whatever the drain does, the merged
\* marks and the new lastSyncTime stay as written.
C31_MergeStep ==
    (last'.op = "syncData" /\ last'.ev # "call" /\ last'.merged) =>
        /\ last'.drained <=> online
        /\ getUserMarks(localStorage') =
               MergeMarks(last'.localMarks, last'.serverMarks)
        /\ getLastSyncTime(localStorage') = Given(now)
        /\ (online /\ Queue # <<>>) => GetQueue(localStorage', now) # Queue
        /\ ~online => GetQueue(localStorage', now) = Queue

C31_DrainFollowsMerge == [][C31_MergeStep]_vars

\* a merge made online over writes still waiting in the queue
C31_Witness ==
    /\ last.op = "syncData" /\ last.ev # "call" /\ last.merged
    /\ last.drained
    /\ unconfirmed # EmptyMap
    /\ Marks = MergeMarks(last.localMarks, last.serverMarks)

\* C32: the deadline timer armed by a makeRequest attempt is disarmed on
\* every exit path of that attempt (success, HTTP failure, transport
\* failure, abort, before a retry): a timer is armed only while the fetch of
\* its attempt is pending, and a timer that fires belongs to an attempt that
\* has not finished.
C32_TimerLivesWithAttempt ==
    /\ \A r \in RequestIds :
           (requests[r].pc # "idle" /\ requests[r].timer) => requests[r].pc = "fetch"
    /\ (last.op = "timer" /\ last.ev = "fire") =>
           /\ requests[last.request].pc = "fetch"
           /\ requests[last.request].ctl = last.ctl

\* an attempt ended before its deadline and the call waits to retry
C32_Witness ==
    \E r \in RequestIds :
        /\ requests[r].pc = "delay"
        /\ requests[r].ctl \notin aborted
        /\ ~requests[r].timer

C34_MergeStep ==
    (last'.op = "syncData" /\ last'.ev # "call" /\ last'.merged) =>
        \A k \in DOMAIN Marks :
            (/\ k \notin DOMAIN last'.serverMarks
             /\ k \in DOMAIN last'.localMarks => last'.localMarks[k] # Marks[k]) =>
                /\ k \in DOMAIN getUserMarks(localStorage')
                /\ getUserMarks(localStorage')[k] = Marks[k]

C34_WriteDuringSyncSurvives == [][C34_MergeStep]_vars

\* entries the store held when the pass was about to rewrite the queue and
\* that the pass had not read: they were appended while it was suspended
AppendedDuringPass ==
    IF /\ Len(last.live) > Len(last.before)
       /\ SubSeq(last.live, 1, Len(last.before)) = last.before
    THEN SubSeq(last.live, Len(last.before) + 1, Len(last.live))
    ELSE <<>>

\* C35: an operation appended to the pending queue while a drain pass is
\* suspended on a network replay is still in the queue after that pass
\* finishes rewriting the queue.
C35_AppendDuringPassSurvives ==
    (Returned("processOfflineQueue") /\ last.ran) =>
        \A i \in 1..Len(AppendedDuringPass) :
            \E j \in 1..Len(Queue) : Queue[j] = AppendedDuringPass[i]

\* the entries pass d has sent so far
SentBy(d) == {drains[d].queue[drains[d].sent[n]] : n \in 1..Len(drains[d].sent)}

\* C36: when two processOfflineQueue calls overlap, each queued operation is
\* sent to the remote at most once, and the queue left after both have
\* finished holds exactly the operations that were not delivered.  Stated
\* for the sends: two passes in progress have sent no operation in common.
C36_OverlapSendsOnce ==
    \A d1 \in PassIds, d2 \in PassIds :
        (d1 # d2 /\ drains[d1].pc = "replay" /\ drains[d2].pc = "replay") =>
            SentBy(d1) \cap SentBy(d2) = {}

\* the syncData calls of client c between their start and their completion
Syncing(c) == {y \in SyncIds : syncs[y].pc = "fetch" /\ syncs[y].client = c}

\* C37: on one ApiClient the in-progress flag is true whenever some syncData
\* call is between its start and its completion; in particular, after a
\* force = true sync that overlapped a running sync finishes, the flag still
\* rejects a new call without force as long as the earlier sync is running.
C37_FlagCoversRunningSync ==
    \A c \in Clients : Syncing(c) # {} => syncInProgress[c]

\* cache maintenance: clearCache, and removeFromCache, setCache or a getCache
\* read (with its lazy eviction) of a response key
CacheMaintenance ==
    \/ last.op = "clearCache"
    \/ /\ last.op \in {"removeFromCache", "setCache", "getCache"}
       /\ last.key \in LoadKeys

\* C38: cache maintenance never discards pending writes: clearCache,
\* removeFromCache of a response key, setCache of a response key and lazy
\* TTL eviction leave the pending offline queue unchanged.
C38_MaintenanceKeepsQueue ==
    CacheMaintenance => Queue = GetQueue(last.before, now)

\* C39: convergence: after a successful syncData whose follow-up drain has
\* gone through every queued operation (the queue is empty after it), and
\* with no further writes, the local UserMarks and the remote store hold the
\* same score for every key that was in the queue.
C39_MergeStep ==
    (/\ last'.op = "syncData" /\ last'.ev = "return" /\ last'.merged
     /\ last'.drained
     /\ GetQueue(localStorage', now) = <<>>) =>
        \A i \in 1..Len(Queue) :
            Queue[i].type = "save_score" =>
                LET k == MarkKey(Queue[i].paperId, Queue[i].questionId)
                IN /\ k \in DOMAIN getUserMarks(localStorage')
                   /\ k \in DOMAIN remote'
                   /\ getUserMarks(localStorage')[k] = remote'[k]

C40_LoadAfterSave ==
    (/\ last.op = "saveScore" /\ last.ev = "return"
     /\ last.fetched /\ last.result.success
     /\ last'.op = "loadScores" /\ last'.ev = "return" /\ last'.useCache)
        => ~last'.fromCache

C40_NoStaleListAfterSave == [][C40_LoadAfterSave]_vars

====
